---------------------------- MODULE Spec2Model ----------------------------
(***************************************************************************)
(* A model of the packing-slip / shipping-label sorter (src/app.py).       *)
(*                                                                         *)
(* Python strings are modelled as sequences of one-character strings, so   *)
(* that lower(), strip(), split(), join(), the "in" substring test, the    *)
(* regular expressions and the code-point order used by sorted() are       *)
(* computed, not assumed.  Python list indices are 0-based; sequences here *)
(* are 1-based, so a Python index i is position i + 1.  Page indices (idx, *)
(* original_index) keep their 0-based Python values.                       *)
(***************************************************************************)
EXTENDS Integers, Sequences, FiniteSets, TLC

\* ------------------------------------------------------------------------
\* Strings
\* ------------------------------------------------------------------------

\* The printable ASCII characters in code-point order, 32 .. 126.  Code point
\* 96 (the grave accent, which the TLA+ lexer does not accept in a string)
\* is held by the placeholder "grave"; no modelled text contains it.
Ascii ==
   << " ", "!", "\"", "#", "$", "%", "&", "'", "(", ")", "*", "+", ",", "-", ".", "/",
      "0", "1", "2", "3", "4", "5", "6", "7", "8", "9", ":", ";", "<", "=", ">", "?",
      "@", "A", "B", "C", "D", "E", "F", "G", "H", "I", "J", "K", "L", "M", "N", "O",
      "P", "Q", "R", "S", "T", "U", "V", "W", "X", "Y", "Z", "[", "\\", "]", "^", "_",
      "grave", "a", "b", "c", "d", "e", "f", "g", "h", "i", "j", "k", "l", "m", "n", "o",
      "p", "q", "r", "s", "t", "u", "v", "w", "x", "y", "z", "{", "|", "}", "~" >>

AsciiChars == {Ascii[k] : k \in 1..Len(Ascii)}

\* Position of a character in Ascii (its code point minus 31); control
\* characters (tab, newline) order before every printable character.
OrdTable == [c \in AsciiChars |-> CHOOSE k \in 1..Len(Ascii) : Ascii[k] = c]

Ord(c) == IF c \in AsciiChars THEN OrdTable[c] ELSE 0

UpperChars == {"A", "B", "C", "D", "E", "F", "G", "H", "I", "J", "K", "L", "M",
               "N", "O", "P", "Q", "R", "S", "T", "U", "V", "W", "X", "Y", "Z"}

LowerChars == {"a", "b", "c", "d", "e", "f", "g", "h", "i", "j", "k", "l", "m",
               "n", "o", "p", "q", "r", "s", "t", "u", "v", "w", "x", "y", "z"}

Digits == {"0", "1", "2", "3", "4", "5", "6", "7", "8", "9"}

Whitespace == {" ", "\t", "\r", "\n"}

\* 'a' - 'A', as a distance in Ascii.
CaseOffset == OrdTable["a"] - OrdTable["A"]

LowerChar(c) == IF c \in UpperChars THEN Ascii[OrdTable[c] + CaseOffset] ELSE c

UpperChar(c) == IF c \in LowerChars THEN Ascii[OrdTable[c] - CaseOffset] ELSE c

\* str.lower()
Lower(s) == [k \in 1..Len(s) |-> LowerChar(s[k])]

\* str.upper()
Upper(s) == [k \in 1..Len(s) |-> UpperChar(s[k])]

SetMin(S) == CHOOSE x \in S : \A y \in S : x <= y

SetMax(S) == CHOOSE x \in S : \A y \in S : y <= x

\* str.strip()
Strip(s) ==
   LET solid == {k \in 1..Len(s) : s[k] \notin Whitespace}
   IN  IF solid = {} THEN << >> ELSE SubSeq(s, SetMin(solid), SetMax(solid))

\* sub occurs in s at position p
OccursAt(s, sub, p) ==
   /\ p >= 1
   /\ p + Len(sub) - 1 <= Len(s)
   /\ \A k \in 1..Len(sub) : s[p + k - 1] = sub[k]

\* Python's "sub in s"
Contains(s, sub) == \E p \in 1..(Len(s) - Len(sub) + 1) : OccursAt(s, sub, p)

\* str.split(c) on a one-character separator
RECURSIVE Split(_, _)
Split(s, c) ==
   LET at == {k \in 1..Len(s) : s[k] = c}
   IN  IF at = {} THEN << s >>
       ELSE << SubSeq(s, 1, SetMin(at) - 1) >>
               \o Split(SubSeq(s, SetMin(at) + 1, Len(s)), c)

\* sep.join(parts)
RECURSIVE Join(_, _)
Join(parts, sep) ==
   IF parts = << >> THEN << >>
   ELSE IF Len(parts) = 1 THEN parts[1]
   ELSE parts[1] \o sep \o Join(Tail(parts), sep)

\* Python's a < b on strings: lexicographic by code point
StrLess(a, b) ==
   LET n    == IF Len(a) < Len(b) THEN Len(a) ELSE Len(b)
       diff == {k \in 1..n : a[k] # b[k]}
   IN  IF diff = {} THEN Len(a) < Len(b)
       ELSE Ord(a[SetMin(diff)]) < Ord(b[SetMin(diff)])

\* sorted() of a set of strings
RECURSIVE SortedStrings(_)
SortedStrings(S) ==
   IF S = {} THEN << >>
   ELSE LET m == CHOOSE x \in S : \A y \in S : x = y \/ StrLess(x, y)
        IN  << m >> \o SortedStrings(S \ {m})

IsDigits(s) == s # << >> /\ \A k \in 1..Len(s) : s[k] \in Digits

DigitValue(c) == OrdTable[c] - OrdTable["0"]

\* int(s) for a string of decimal digits
RECURSIVE ParseInt(_)
ParseInt(s) ==
   IF s = << >> THEN 0
   ELSE 10 * ParseInt(SubSeq(s, 1, Len(s) - 1)) + DigitValue(s[Len(s)])

\* str(n) for a natural number
RECURSIVE Str(_)
Str(n) ==
   IF n < 10 THEN << Ascii[OrdTable["0"] + n] >>
   ELSE Str(n \div 10) \o << Ascii[OrdTable["0"] + (n % 10)] >>

\* Whether character c is in the regular-expression class \s, \S or \d
InClass(c, class) ==
   CASE class = "s" -> c \in Whitespace
     [] class = "S" -> c \notin Whitespace
     [] class = "d" -> c \in Digits

\* The end of the longest run of characters of a class that starts at
\* position p (p - 1 when the run is empty): what a greedy \s+, \S+ or \d+
\* consumes.
RunEnd(s, p, class) ==
   LET stops == {k \in p..Len(s) : ~InClass(s[k], class)}
   IN  IF stops = {} THEN (IF p > Len(s) THEN p - 1 ELSE Len(s))
       ELSE SetMin(stops) - 1

IsDigit(c) == c \in Digits

\* ------------------------------------------------------------------------
\* Configuration
\* ------------------------------------------------------------------------

AREA_SORT_ORDER ==
   << <<"A","1","3">>, <<"D","1","6">>, <<"B","1","1">>, <<"B","1","2">>,
      <<"B","1","3">>, <<"B","1","4">>, <<"B","1","6">>, <<"B","1","7">>,
      <<"B","1","8">>, <<"B","1","9">>, <<"g","a","r","a","g","e">> >>

s_sample == <<"s","a","m","p","l","e">>

s_garage == <<"g","a","r","a","g","e">>

s_unknown_area == <<"U","n","k","n","o","w","n"," ","A","r","e","a">>

s_B16 == <<"B","1","6">>

s_ITEMS == <<"I","T","E","M","S">>

s_SKU == <<"S","K","U">>

s_LB == <<"L","B">>

s_of == <<"o","f">>

s_size == <<"s","i","z","e">>

s_Sample == <<"S","a","m","p","l","e">>

s_one == <<"1">>

acceptable_sizes ==
   { <<"1">>, <<"2">>, <<"S">>, <<"M">>, <<"L">>, <<"S","M">>, <<"M","L">>,
     <<"L","G">>, <<"S","i","z","e"," ","1">>, <<"S","i","z","e"," ","2">>,
     s_Sample }
   \cup {Str(n) : n \in 30..50}

stop_phrases ==
   { <<"P","l","e","a","s","e"," ","n","o","t","e"," ","o","u","r"," ","r","e","t","u","r","n"," ","w","i","n","d","o","w">>,
     <<"T","h","a","n","k"," ","y","o","u"," ","f","o","r"," ","s","h","o","p","p","i","n","g"," ","w","i","t","h"," ","u","s","!">>,
     <<"I","f"," ","y","o","u"," ","h","a","v","e"," ","a","n","y"," ","q","u","e","s","t","i","o","n","s">>,
     <<"N","O","T","E","S">>,
     <<"S","I","G","N","A","T","U","R","E"," ","R","E","Q","U","I","R","E","D"," ","S","H","I","P","P","I","N","G">>,
     <<"p","l","e","a","s","e"," ","v","i","s","i","t"," ","o","u","r"," ","r","e","t","u","r","n","s"," ","p","o","r","t","a","l">>,
     <<"y","o","u","r","c","o","m","p","a","n","y",".","c","o","m">> }

\* ------------------------------------------------------------------------
\* Area resolver and area identifier composer
\* ------------------------------------------------------------------------

\* get_warehouse_area with the sample rule applied after the map lookup
get_warehouse_area_map_first(product, warehouse_map) ==
   IF product \in DOMAIN warehouse_map THEN warehouse_map[product]
   ELSE IF Contains(Lower(product), s_sample) THEN s_garage
   ELSE s_unknown_area

\* get_warehouse_area with a substring match in place of the exact one
get_warehouse_area_partial(product, warehouse_map) ==
   IF Contains(Lower(product), s_sample) THEN s_garage
   ELSE IF \E k \in DOMAIN warehouse_map : Contains(product, k)
        THEN warehouse_map[CHOOSE k \in DOMAIN warehouse_map : Contains(product, k)]
   ELSE s_unknown_area

\* get_warehouse_area without the sample rule of lines 428-430
get_warehouse_area_no_sample_rule(product, warehouse_map) ==
   IF product \in DOMAIN warehouse_map THEN warehouse_map[product]
   ELSE s_unknown_area

get_warehouse_area(product, warehouse_map) ==
   IF Contains(Lower(product), s_sample) THEN s_garage
   ELSE IF product \in DOMAIN warehouse_map THEN warehouse_map[product]
   ELSE s_unknown_area

\* determine_area_identifier dropping B16 from every set that holds it
determine_area_identifier_always_drop(product_areas) ==
   IF s_B16 \in product_areas
   THEN Join(SortedStrings(product_areas \ {s_B16}), <<",", " ">>)
   ELSE Join(SortedStrings(product_areas), <<",", " ">>)

determine_area_identifier(product_areas) ==
   IF s_B16 \in product_areas /\ Cardinality(product_areas) > 1
   THEN Join(SortedStrings(product_areas \ {s_B16}), <<",", " ">>)
   ELSE Join(SortedStrings(product_areas), <<",", " ">>)

\* ------------------------------------------------------------------------
\* Line-oriented product parser
\* ------------------------------------------------------------------------

\* The tail  \s+(\d+)\s+of\s+\d+  of the size pattern, matched right after
\* position p.  Every quantifier is followed by a character class disjoint
\* from its own, so each greedy run is the only length that can match and
\* backtracking finds nothing else.
match_quantity_tail(s, p) ==
   LET a == RunEnd(s, p + 1, "s")
       b == RunEnd(s, a + 1, "d")
       c == RunEnd(s, b + 1, "s")
       d == RunEnd(s, c + 3, "s")
   IN  IF /\ a >= p + 1
          /\ b >= a + 1
          /\ c >= b + 1
          /\ OccursAt(s, s_of, c + 1)
          /\ d >= c + 3
          /\ d + 1 <= Len(s)
          /\ IsDigit(s[d + 1])
       THEN [matched |-> TRUE, quantity |-> SubSeq(s, a + 1, b)]
       ELSE [matched |-> FALSE, quantity |-> << >>]

\* re.match(r'(\S+(?:\s+\d+)?)\s+(\d+)\s+of\s+\d+', size_line): group 1 is
\* the first token, extended by a following all-digit token when the rest
\* still matches after it (the optional group is tried first).
match_size_quantity(size_line) ==
   LET e1   == RunEnd(size_line, 1, "S")
       w1   == RunEnd(size_line, e1 + 1, "s")
       d1   == RunEnd(size_line, w1 + 1, "d")
       long == IF e1 >= 1 /\ w1 >= e1 + 1 /\ d1 >= w1 + 1
               THEN match_quantity_tail(size_line, d1)
               ELSE [matched |-> FALSE, quantity |-> << >>]
       short == IF e1 >= 1
                THEN match_quantity_tail(size_line, e1)
                ELSE [matched |-> FALSE, quantity |-> << >>]
   IN  IF long.matched
       THEN [matched |-> TRUE, size |-> SubSeq(size_line, 1, d1),
             quantity |-> long.quantity]
       ELSE IF short.matched
       THEN [matched |-> TRUE, size |-> SubSeq(size_line, 1, e1),
             quantity |-> short.quantity]
       ELSE [matched |-> FALSE, size |-> << >>, quantity |-> << >>]

\* re.search(r'size\s+(\d+)', title): the leftmost "size" followed by
\* whitespace and a digit; group 1 is the whole digit run.
search_size_in_title(title) ==
   LET hits == {p \in 1..Len(title) :
                   /\ OccursAt(title, s_size, p)
                   /\ RunEnd(title, p + 4, "s") >= p + 4
                   /\ RunEnd(title, RunEnd(title, p + 4, "s") + 1, "d")
                         >= RunEnd(title, p + 4, "s") + 1}
   IN  IF hits = {} THEN [matched |-> FALSE, size |-> << >>]
       ELSE LET p == SetMin(hits)
                w == RunEnd(title, p + 4, "s")
            IN  [matched |-> TRUE,
                 size |-> SubSeq(title, w + 1, RunEnd(title, w + 1, "d"))]

\* The size and quantity the inner loop settles on (lines 916-945) given
\* the match m of the size pattern on the size line and the search t of a
\* size in the title; found is FALSE where the code skips the product.
resolve_size_from(product_title_normalized, size_line, m, t) ==
   IF m.matched /\ m.size \in acceptable_sizes
   THEN [found |-> TRUE, size |-> m.size, quantity |-> m.quantity]
   ELSE IF ~m.matched /\ size_line \in acceptable_sizes
   THEN [found |-> TRUE, size |-> size_line, quantity |-> s_one]
   ELSE IF Contains(product_title_normalized, s_sample)
   THEN IF t.matched
        THEN [found |-> TRUE, size |-> t.size, quantity |-> s_one]
        ELSE [found |-> TRUE, size |-> s_Sample, quantity |-> s_one]
   ELSE [found |-> FALSE, size |-> << >>, quantity |-> << >>]

\* Lines 912-945 for one title and its size line
resolve_size(product_title_normalized, size_line) ==
   resolve_size_from(product_title_normalized, size_line,
                     match_size_quantity(size_line),
                     search_size_in_title(product_title_normalized))

\* The optional SKU line test of line 950
is_sku_line(line) == Contains(line, s_SKU) \/ OccursAt(Strip(line), s_LB, 1)

\* inner_step_emit going on at the rejected size line, not after it
inner_step_emit_retry(lines, i, product_title, r) ==
   IF ~r.found
   THEN [exit |-> FALSE, next |-> i + 1, items |-> << >>]
   ELSE [exit |-> FALSE,
         next |-> IF i + 2 <= Len(lines) /\ is_sku_line(lines[i + 2])
                  THEN i + 3 ELSE i + 2,
         items |-> << [product_title |-> product_title, size |-> r.size,
                       quantity |-> r.quantity] >>]

\* Lines 946-957: the size line at position i + 1 gave r; the position after
\* it, and after one SKU line if there is one, and the item appended.
inner_step_emit(lines, i, product_title, r) ==
   IF ~r.found
   THEN [exit |-> FALSE, next |-> i + 2, items |-> << >>]
   ELSE [exit |-> FALSE,
         next |-> IF i + 2 <= Len(lines) /\ is_sku_line(lines[i + 2])
                  THEN i + 3 ELSE i + 2,
         items |-> IF product_title # << >> /\ r.size # << >> /\ r.quantity # << >>
                   THEN << [product_title |-> product_title, size |-> r.size,
                            quantity |-> r.quantity] >>
                   ELSE << >>]

\* inner_step_title without the test of lines 895-899: every title that is
\* not a stop line is accepted
inner_step_title_accept_all(lines, i, warehouse_map, product_title, product_title_normalized) ==
   IF \/ product_title = << >>
      \/ \E stop_phrase \in stop_phrases : Contains(product_title, stop_phrase)
   THEN [exit |-> TRUE, next |-> i, items |-> << >>]
   ELSE IF i + 1 > Len(lines)
   THEN [exit |-> TRUE, next |-> i + 1, items |-> << >>]
   ELSE inner_step_emit(lines, i, product_title,
                        resolve_size(product_title_normalized, Strip(lines[i + 1])))

\* Lines 889-910 for the title line at position i
inner_step_title(lines, i, warehouse_map, product_title, product_title_normalized) ==
   IF \/ product_title = << >>
      \/ \E stop_phrase \in stop_phrases : Contains(product_title, stop_phrase)
   THEN [exit |-> TRUE, next |-> i, items |-> << >>]
   ELSE IF /\ product_title_normalized \notin DOMAIN warehouse_map
           /\ ~Contains(product_title_normalized, s_sample)
   THEN [exit |-> FALSE, next |-> i + 1, items |-> << >>]
   ELSE IF i + 1 > Len(lines)
   THEN [exit |-> TRUE, next |-> i + 1, items |-> << >>]
   ELSE inner_step_emit(lines, i, product_title,
                        resolve_size(product_title_normalized, Strip(lines[i + 1])))

\* inner_step whose continue of line 899 is not preceded by i += 1
inner_step_stall(lines, i, warehouse_map) ==
   IF /\ Strip(lines[i]) # << >>
      /\ Strip(Lower(Strip(lines[i]))) \notin DOMAIN warehouse_map
      /\ ~Contains(Strip(Lower(Strip(lines[i]))), s_sample)
   THEN [exit |-> FALSE, next |-> i, items |-> << >>]
   ELSE inner_step_title(lines, i, warehouse_map, Strip(lines[i]),
                         Strip(Lower(Strip(lines[i]))))

\* One iteration of the inner while loop (lines 887-957) at position i of
\* lines, i <= Len(lines): whether the loop is left (break), the position
\* it goes on from, and the items appended (none or one).
inner_step(lines, i, warehouse_map) ==
   inner_step_title(lines, i, warehouse_map, Strip(lines[i]),
                    Strip(Lower(Strip(lines[i]))))

\* The inner while loop from position i on
RECURSIVE inner_loop(_, _, _)
inner_loop_after(lines, warehouse_map, st) ==
   IF st.exit THEN st.items
   ELSE st.items \o inner_loop(lines, st.next, warehouse_map)

inner_loop(lines, i, warehouse_map) ==
   IF i > Len(lines) THEN << >>
   ELSE inner_loop_after(lines, warehouse_map, inner_step(lines, i, warehouse_map))

\* The outer while loop (lines 883-960) from position i on: the first line
\* holding the marker starts the items section, and the loop ends with it.
RECURSIVE outer_loop(_, _, _)
outer_loop(lines, i, warehouse_map) ==
   IF i > Len(lines) THEN << >>
   ELSE IF Contains(Strip(lines[i]), s_ITEMS)
   THEN inner_loop(lines, i + 1, warehouse_map)
   ELSE outer_loop(lines, i + 1, warehouse_map)

extract_product_details(text, warehouse_map) ==
   outer_loop(Split(text, "\n"), 1, warehouse_map)

\* ------------------------------------------------------------------------
\* Multi-key sort engine
\* ------------------------------------------------------------------------

\* list.index(x), 0-based, for x in the list
IndexOf(list, x) == SetMin({k \in 1..Len(list) : list[k] = x}) - 1

InList(list, x) == \E k \in 1..Len(list) : list[k] = x

\* StableSort with the elements of equal keys in reverse order
StableSort_unstable(list, less) ==
   LET n == Len(list)
       pos(i) == 1 + Cardinality({j \in 1..n :
                        \/ less[j][i]
                        \/ (~less[i][j] /\ j > i)})
   IN  [p \in 1..n |-> list[CHOOSE i \in 1..n : pos(i) = p]]

\* sorted(list, key=...) where less[i][j] tells whether the key of list[i]
\* is smaller than the key of list[j]: Python's sort is ascending and
\* stable, so an element lands after every element with a smaller key and
\* after every earlier element with an equal key.
StableSort(list, less) ==
   LET n == Len(list)
       pos(i) == 1 + Cardinality({j \in 1..n :
                        \/ less[j][i]
                        \/ (~less[i][j] /\ j < i)})
   IN  [p \in 1..n |-> list[CHOOSE i \in 1..n : pos(i) = p]]

\* get_primary_area taking the last listed area
get_primary_area_last(area_identifier) ==
   Strip(Split(area_identifier, ",")[Len(Split(area_identifier, ","))])

get_primary_area(area_identifier) == Strip(Split(area_identifier, ",")[1])

area_sort_value(primary_area) ==
   IF InList(AREA_SORT_ORDER, primary_area)
   THEN IndexOf(AREA_SORT_ORDER, primary_area)
   ELSE Len(AREA_SORT_ORDER)

\* sort_key of an entry of pages_with_info
sort_key(item) ==
   << area_sort_value(get_primary_area(item.area_identifier)), item.product_title >>

\* Python's < on (int, str) tuples
key_less(ka, kb) ==
   \/ ka[1] < kb[1]
   \/ (ka[1] = kb[1] /\ StrLess(ka[2], kb[2]))

\* The order sorted(..., key=sort_key) compares two entries by
sort_key_less(a, b) == key_less(sort_key(a), sort_key(b))

\* ------------------------------------------------------------------------
\* Summary aggregator
\* ------------------------------------------------------------------------

\* str.replace(sub, '') for a non-empty sub
RECURSIVE RemoveAll(_, _)
RemoveAll(s, sub) ==
   LET at == {p \in 1..Len(s) : OccursAt(s, sub, p)}
   IN  IF at = {} THEN s
       ELSE SubSeq(s, 1, SetMin(at) - 1)
               \o RemoveAll(SubSeq(s, SetMin(at) + Len(sub), Len(s)), sub)

letter_sizes_order ==
   (<<"X","S">> :> 1) @@ (<<"S">> :> 2) @@ (<<"M">> :> 3) @@ (<<"L">> :> 4)
      @@ (<<"X","L">> :> 5) @@ (<<"X","X","L">> :> 6)

\* Lines 72-89 of size_sort_key, with size_clean and what is left of it
\* once every 'size ' is removed; int() is taken to succeed exactly on
\* decimal digit strings.
size_sort_key_of(size, size_clean, rest) ==
   IF OccursAt(size_clean, <<"s","i","z","e"," ">>, 1) /\ IsDigits(rest)
   THEN ParseInt(rest)
   ELSE IF IsDigits(size_clean) THEN ParseInt(size_clean)
   ELSE IF Upper(size) \in DOMAIN letter_sizes_order
   THEN letter_sizes_order[Upper(size)]
   ELSE 100

size_sort_key(size) ==
   size_sort_key_of(size, Strip(Lower(size)),
                    Strip(RemoveAll(Strip(Lower(size)), <<"s","i","z","e"," ">>)))

\* The bucket update of lines 835-846 for the items of one page
\* Lines 843-846: item is appended to the bucket of area
add_item(summary_data, area, item) ==
   IF area \in DOMAIN summary_data
   THEN [summary_data EXCEPT ![area] = Append(@, item)]
   ELSE summary_data @@ (area :> << item >>)

RECURSIVE add_to_summary(_, _, _)
add_to_summary(summary_data, product_details, warehouse_map) ==
   IF product_details = << >> THEN summary_data
   ELSE add_to_summary(
           add_item(summary_data,
                    get_warehouse_area(Strip(Lower(Head(product_details).product_title)),
                                       warehouse_map),
                    Head(product_details)),
           Tail(product_details), warehouse_map)

\* summary_data after the pages of details_list (one product_details per
\* kept page, in the order generate_summary reads them)
RECURSIVE collect_summary(_, _, _)
collect_summary(summary_data, details_list, warehouse_map) ==
   IF details_list = << >> THEN summary_data
   ELSE collect_summary(add_to_summary(summary_data, Head(details_list), warehouse_map),
                        Tail(details_list), warehouse_map)

\* The key of the lambda of line 994: (title.lower(), size_sort_key(size))
product_key(x) == << Lower(x.product_title), size_sort_key(x.size) >>

\* Python's < on (str, int) tuples
product_key_less(ka, kb) ==
   \/ StrLess(ka[1], kb[1])
   \/ (ka[1] = kb[1] /\ ka[2] < kb[2])

product_less(a, b) == product_key_less(product_key(a), product_key(b))

\* merge_product with the quantity of the row replaced, not added to
merge_product_overwrite(rows, item) ==
   IF ~IsDigits(item.quantity) THEN rows
   ELSE IF \E k \in 1..Len(rows) : /\ rows[k].product_title = item.product_title
                                   /\ rows[k].size = item.size
   THEN [k \in 1..Len(rows) |->
           IF rows[k].product_title = item.product_title /\ rows[k].size = item.size
           THEN [rows[k] EXCEPT !.quantity = ParseInt(item.quantity)]
           ELSE rows[k]]
   ELSE Append(rows, [product_title |-> item.product_title, size |-> item.size,
                      quantity |-> ParseInt(item.quantity)])

\* Lines 1007-1016 for one entry: its quantity is added to the row of its
\* (title, size), or starts a new row; a quantity int() rejects is skipped.
merge_product(rows, item) ==
   IF ~IsDigits(item.quantity) THEN rows
   ELSE IF \E k \in 1..Len(rows) : /\ rows[k].product_title = item.product_title
                                   /\ rows[k].size = item.size
   THEN [k \in 1..Len(rows) |->
           IF rows[k].product_title = item.product_title /\ rows[k].size = item.size
           THEN [rows[k] EXCEPT !.quantity = @ + ParseInt(item.quantity)]
           ELSE rows[k]]
   ELSE Append(rows, [product_title |-> item.product_title, size |-> item.size,
                      quantity |-> ParseInt(item.quantity)])

\* unique_products of lines 1005-1016, as rows in insertion order
RECURSIVE merge_products(_, _)
merge_products(rows, sorted_products) ==
   IF sorted_products = << >> THEN rows
   ELSE merge_products(merge_product(rows, Head(sorted_products)), Tail(sorted_products))

\* The section of one area (lines 991-1052): none when the area has no
\* bucket or no row
summary_section(area, rows) ==
   IF rows # << >> THEN << [area |-> area, rows |-> rows] >> ELSE << >>

\* The comparisons sorted(products, key=...) of line 994 makes
product_less_of(products) ==
   [i \in 1..Len(products) |->
      [j \in 1..Len(products) |-> product_less(products[i], products[j])]]

\* summary_rows with the bucket merged in the order the pages filled it
summary_rows_unsorted(summary_data, area) ==
   IF area \in DOMAIN summary_data
   THEN merge_products(<< >>, summary_data[area])
   ELSE << >>

\* The rows of the bucket of area (lines 992-1019)
summary_rows(summary_data, area) ==
   IF area \in DOMAIN summary_data
   THEN merge_products(<< >>, StableSort(summary_data[area],
                                         product_less_of(summary_data[area])))
   ELSE << >>

\* The sections create_summary_pdf_page lays out, from position k of
\* AREA_SORT_ORDER on
RECURSIVE summary_sections(_, _)
summary_sections(summary_data, k) ==
   IF k > Len(AREA_SORT_ORDER) THEN << >>
   ELSE summary_section(AREA_SORT_ORDER[k], summary_rows(summary_data, AREA_SORT_ORDER[k]))
        \o summary_sections(summary_data, k + 1)

\* create_summary_pdf_page laying out every area of summary_data, in
\* alphabetical order
create_summary_pdf_page_every_area(summary_data) ==
   LET areas == SortedStrings(DOMAIN summary_data)
       section(k) == summary_section(areas[k], summary_rows(summary_data, areas[k]))
       nonempty == {k \in 1..Len(areas) : section(k) # << >>}
       nth(m) == CHOOSE k \in nonempty : Cardinality({j \in nonempty : j < k}) = m - 1
   IN  [m \in 1..Cardinality(nonempty) |-> section(nth(m))[1]]

create_summary_pdf_page(summary_data) == summary_sections(summary_data, 1)

\* ------------------------------------------------------------------------
\* Inputs of a run
\* ------------------------------------------------------------------------

\* Most pages of a packing-slip deck
MaxPages == 2

\* Most page-text extractions that fail in one run
MaxFail == 1

\* The warehouse map of the runs, as load_warehouse_map_dict builds it:
\* lowercased, stripped product names
MainMap ==
   (<<"t","e","e">> :> <<"B","1","1">>) @@ (<<"h","a","t">> :> <<"A","1","3">>)
      @@ (<<"w","i","g">> :> <<"B","1","1">>)
      @@ (<<"s","o","c","k">> :> <<"B","1","6">>)
      @@ (<<"m","u","g">> :> <<"C","0","1">>)
      @@ (<<"c","a","p">> :> <<"D","1","6">>)

\* One item in B11
page_tee ==
   Join(<< <<"I","T","E","M","S">>,
           <<"T","e","e">>,
           <<"M"," ","2"," ","o","f"," ","2">> >>, <<"\n">>)

\* One item in A13, after a header line
page_hat ==
   Join(<< <<"O","r","d","e","r">>,
           <<"I","T","E","M","S">>,
           <<"H","a","t">>,
           <<"S">> >>, <<"\n">>)

\* Items in B11, B16 and D16, with a SKU line
page_multi ==
   Join(<< <<"I","T","E","M","S">>,
           <<"W","i","g">>,
           <<"L"," ","1"," ","o","f"," ","1">>,
           <<"S","K","U"," ","9">>,
           <<"S","o","c","k">>,
           <<"M">>,
           <<"C","a","p">>,
           <<"3","9"," ","3"," ","o","f"," ","3">>,
           <<"T","e","e">>,
           <<"M"," ","3"," ","o","f"," ","3">>,
           <<"T","e","e">>,
           <<"L"," ","1"," ","o","f"," ","1">> >>, <<"\n">>)

\* No items marker
page_none ==
   Join(<< <<"O","r","d","e","r">>,
           <<"N","O","T","E","S">> >>, <<"\n">>)

\* One sample item, not in the map
page_sample ==
   Join(<< <<"I","T","E","M","S">>,
           <<"F","r","e","e"," ","S","a","m","p","l","e">>,
           <<"x">> >>, <<"\n">>)

\* One item in an area AREA_SORT_ORDER does not list
page_mug ==
   Join(<< <<"I","T","E","M","S">>,
           <<"M","u","g">>,
           <<"2"," ","1"," ","o","f"," ","1">> >>, <<"\n">>)

\* Items in D16 and in an area AREA_SORT_ORDER does not list
page_cap_mug ==
   Join(<< <<"I","T","E","M","S">>,
           <<"C","a","p">>,
           <<"M">>,
           <<"M","u","g">>,
           <<"S">> >>, <<"\n">>)

PageTexts ==
   {page_tee, page_hat, page_multi, page_none, page_sample, page_mug, page_cap_mug}

\* The packing-slip decks: every sequence of at most MaxPages page texts
Decks == UNION {[1..n -> PageTexts] : n \in 0..MaxPages}

\* ------------------------------------------------------------------------
\* State
\* ------------------------------------------------------------------------

VARIABLES
   packing_slips_deck,     \* the text of each page of the packing-slip PDF
   warehouse_map,          \* the warehouse map passed to the run
   pc,                     \* the step the run is at
   abort_reason,           \* why the run returned early, "" while it has not
   idx,                    \* loop index of the selection loop (step 2)
   failures,               \* text extractions that have failed so far
   selected_details,       \* product_details parsed for each page in step 2
   selection_failed,       \* pages whose text extraction failed in step 2
   pages_to_keep,
   indices_to_keep,
   page_areas_list,
   summary_reads,          \* page indices generate_summary has read
   summary_details,        \* product_details generate_summary parsed for them
   manifest,               \* the sections laid out on the summary pages
   summary_pages,
   area_identifiers,
   annotated_packing_slips_pages,
   page_product_titles,
   sorted_pages,
   sorted_indices,
   shipping_labels_pages,  \* pages of the shipping-label PDF, once read
   slips_file,             \* sorted_packing_slips.pdf as this run wrote it
   labels_file,            \* sorted_shipping_labels.pdf as this run wrote it
   call_args,              \* arguments of a stand-alone call of a function
   call_result,            \* its result, once it has returned
   parser_locals           \* the parser's loop position and items, when stepped

run_vars ==
   << packing_slips_deck, warehouse_map, pc, abort_reason, idx, failures,
      selected_details, selection_failed, pages_to_keep, indices_to_keep, page_areas_list,
      summary_reads, summary_details, manifest, summary_pages, area_identifiers,
      annotated_packing_slips_pages, page_product_titles, sorted_pages,
      sorted_indices, shipping_labels_pages, slips_file, labels_file >>

call_vars == << call_args, call_result, parser_locals >>

vars == << run_vars, call_vars >>

NotWritten == [written |-> FALSE, pages |-> << >>]

NoCall == [fn |-> "none"]

\* The parser is not being stepped through.
ParserIdle ==
   [at |-> "idle", i |-> 0, product_details |-> << >>,
    prev_at |-> "none", prev_i |-> 0, prev_n |-> 0,
    len |-> 0, markers |-> << >>, steps |-> << >>]

total_pages == Len(packing_slips_deck)

\* packing_slips_pages[idx]: a page object of the packing-slip reader
packing_slips_page(i) == [deck |-> "slips", original_index |-> i, overlay |-> << >>]

\* ------------------------------------------------------------------------
\* process_packing_slips_and_labels
\* ------------------------------------------------------------------------

RunInit ==
   /\ packing_slips_deck \in Decks
   /\ warehouse_map = MainMap
   /\ pc = "start"
   /\ abort_reason = ""
   /\ idx = 0
   /\ failures = 0
   /\ selected_details = << >>
   /\ selection_failed = {}
   /\ pages_to_keep = << >>
   /\ indices_to_keep = << >>
   /\ page_areas_list = << >>
   /\ summary_reads = {}
   /\ summary_details = << >>
   /\ manifest = << >>
   /\ summary_pages = << >>
   /\ area_identifiers = << >>
   /\ annotated_packing_slips_pages = << >>
   /\ page_product_titles = << >>
   /\ sorted_pages = << >>
   /\ sorted_indices = << >>
   /\ shipping_labels_pages = << >>
   /\ slips_file = NotWritten
   /\ labels_file = NotWritten

Init == RunInit /\ call_args = NoCall /\ call_result = NoCall /\ parser_locals = ParserIdle

\* The run returns early (a return statement, or the except clause).
Abort(reason) == pc' = "aborted" /\ abort_reason' = reason

\* Lines 488-520: the save directory is missing or cannot be created, the
\* deck is empty, or the run goes on to step 2.
Start ==
   /\ pc = "start"
   /\ \E save_path_ok \in BOOLEAN :
         IF ~save_path_ok THEN Abort("no_save_directory")
         ELSE IF total_pages = 0 THEN Abort("empty_deck")
         ELSE pc' = "select" /\ abort_reason' = abort_reason
   /\ UNCHANGED << packing_slips_deck, warehouse_map, idx, failures,
                   selected_details, selection_failed, pages_to_keep, indices_to_keep,
                   page_areas_list, summary_reads, summary_details, manifest, summary_pages,
                   area_identifiers, annotated_packing_slips_pages,
                   page_product_titles, sorted_pages, sorted_indices,
                   shipping_labels_pages, slips_file, labels_file, call_vars >>

\* extract_text_from_page returning the text of the page although the
\* extraction raised
extract_text_from_page_despite_failure(i, failed) == packing_slips_deck[i + 1]

\* extract_text_from_page(packing_slips_path, i): the page's text, or ''
\* when extraction raised
extract_text_from_page(i, failed) ==
   IF failed THEN << >> ELSE packing_slips_deck[i + 1]

\* product_areas of lines 538-543
product_areas_of(product_details, wm) ==
   {get_warehouse_area(Strip(Lower(product_details[k].product_title)), wm) :
       k \in 1..Len(product_details)}

\* has_samples of line 554
has_samples_of(product_details) ==
   \E k \in 1..Len(product_details) :
      Contains(Lower(product_details[k].product_title), s_sample)

\* keep_page without the early continue of lines 531-533
keep_page_every(product_details, wm) == TRUE

\* keep_page keeping only the pages with an item of the warehouse map
keep_page_mapped_only(product_details, wm) ==
   \E k \in 1..Len(product_details) :
      Strip(Lower(product_details[k].product_title)) \in DOMAIN wm

\* Whether the selection loop keeps a page with these product_details
\* (lines 531-557)
keep_page(product_details, wm) ==
   /\ product_details # << >>
   /\ ~(product_areas_of(product_details, wm) = {} /\ ~has_samples_of(product_details))

\* One iteration of the selection loop (lines 528-565)
SelectPage ==
   /\ pc = "select"
   /\ idx < total_pages
   /\ \E failed \in BOOLEAN :
         /\ failed => failures < MaxFail
         /\ failures' = IF failed THEN failures + 1 ELSE failures
         /\ selection_failed' = IF failed THEN selection_failed \cup {idx}
                                 ELSE selection_failed
         /\ \E product_details \in
                  {extract_product_details(extract_text_from_page(idx, failed),
                                           warehouse_map)} :
                /\ selected_details' = Append(selected_details, product_details)
                /\ IF keep_page(product_details, warehouse_map)
                   THEN /\ pages_to_keep' = Append(pages_to_keep, packing_slips_page(idx))
                        /\ indices_to_keep' = Append(indices_to_keep, idx)
                        /\ page_areas_list' =
                              Append(page_areas_list,
                                     product_areas_of(product_details, warehouse_map))
                   ELSE UNCHANGED << pages_to_keep, indices_to_keep, page_areas_list >>
   /\ idx' = idx + 1
   /\ UNCHANGED << packing_slips_deck, warehouse_map, pc, abort_reason,
                   summary_reads, summary_details, manifest, summary_pages, area_identifiers,
                   annotated_packing_slips_pages, page_product_titles,
                   sorted_pages, sorted_indices, shipping_labels_pages,
                   slips_file, labels_file, call_vars >>

\* EndSelect going on to step 3 whatever was kept
EndSelect_continue ==
   /\ pc = "select"
   /\ idx = total_pages
   /\ pc' = "summary" /\ abort_reason' = abort_reason
   /\ UNCHANGED << packing_slips_deck, warehouse_map, idx, failures,
                   selected_details, selection_failed, pages_to_keep, indices_to_keep,
                   page_areas_list, summary_reads, summary_details, manifest, summary_pages,
                   area_identifiers, annotated_packing_slips_pages,
                   page_product_titles, sorted_pages, sorted_indices,
                   shipping_labels_pages, slips_file, labels_file, call_vars >>

\* Lines 567-570: nothing was kept, or the run goes on to step 3.
EndSelect ==
   /\ pc = "select"
   /\ idx = total_pages
   /\ IF pages_to_keep = << >> THEN Abort("no_pages_to_keep")
      ELSE pc' = "summary" /\ abort_reason' = abort_reason
   /\ UNCHANGED << packing_slips_deck, warehouse_map, idx, failures,
                   selected_details, selection_failed, pages_to_keep, indices_to_keep,
                   page_areas_list, summary_reads, summary_details, manifest, summary_pages,
                   area_identifiers, annotated_packing_slips_pages,
                   page_product_titles, sorted_pages, sorted_indices,
                   shipping_labels_pages, slips_file, labels_file, call_vars >>

\* The sets of pages among indices whose text extraction may fail in one
\* pass over them, given the failures so far
FailingSets(indices) ==
   {F \in SUBSET {indices[k] : k \in 1..Len(indices)} :
       Cardinality(F) <= MaxFail - failures}

\* product_details as a pass over indices reads them now (lines 598-600 and
\* 823-826), the pages of failing yielding ''
details_read(indices, failing) ==
   [k \in 1..Len(indices) |->
      extract_product_details(extract_text_from_page(indices[k], indices[k] \in failing),
                              warehouse_map)]

\* The pages generate_summary loops over (line 823)
summary_indices == indices_to_keep

\* generate_summary (lines 819-865): the sections laid out from the items
\* of the pages of indices as they are read now
generate_summary(indices, failing) ==
   create_summary_pdf_page(
      collect_summary(<< >>, details_read(indices, failing), warehouse_map))

\* Step 3 (lines 572-575): every kept page is read again, its items are
\* bucketed by area and the sections are laid out; the few rows of the
\* modelled decks fit one page, and no sections give no page (line 1056).
GenerateSummary ==
   /\ pc = "summary"
   /\ \E failing \in FailingSets(summary_indices) :
         \E sections \in {generate_summary(summary_indices, failing)} :
             /\ failures' = failures + Cardinality(failing)
             /\ summary_details' = details_read(summary_indices, failing)
             /\ manifest' = sections
             /\ summary_pages' =
                   IF sections = << >> THEN << >>
                   ELSE << [deck |-> "summary", original_index |-> 0,
                            overlay |-> << >>] >>
   /\ summary_reads' = {summary_indices[k] : k \in 1..Len(summary_indices)}
   /\ pc' = "annotate"
   /\ UNCHANGED << packing_slips_deck, warehouse_map, abort_reason, idx,
                   selected_details, selection_failed, pages_to_keep, indices_to_keep,
                   page_areas_list, area_identifiers,
                   annotated_packing_slips_pages, page_product_titles,
                   sorted_pages, sorted_indices, shipping_labels_pages,
                   slips_file, labels_file, call_vars >>

\* Step 4 (lines 577-590): each kept page gets its area identifier drawn on.
Annotate ==
   /\ pc = "annotate"
   /\ \E identifiers \in
            {[k \in 1..Len(pages_to_keep) |->
                 determine_area_identifier(page_areas_list[k])]} :
         /\ area_identifiers' = identifiers
         /\ annotated_packing_slips_pages' =
               [k \in 1..Len(pages_to_keep) |->
                  [pages_to_keep[k] EXCEPT !.overlay = identifiers[k]]]
   /\ pc' = "sort"
   /\ UNCHANGED << packing_slips_deck, warehouse_map, abort_reason, idx, failures,
                   selected_details, selection_failed, pages_to_keep, indices_to_keep,
                   page_areas_list, summary_reads, summary_details, manifest, summary_pages,
                   page_product_titles, sorted_pages, sorted_indices,
                   shipping_labels_pages, slips_file, labels_file, call_vars >>

\* primary_product of lines 603-608
primary_product_of(product_details) ==
   IF product_details # << >>
   THEN Strip(Lower(product_details[1].product_title))
   ELSE << >>

\* page_product_titles of lines 597-609, as the pass reads the pages now
product_titles_read(indices, failing) ==
   [k \in 1..Len(indices) |-> primary_product_of(details_read(indices, failing)[k])]

\* pages_with_info of line 612
pages_with_info_of(titles) ==
   [k \in 1..Len(indices_to_keep) |->
      [page |-> annotated_packing_slips_pages[k],
       area_identifier |-> area_identifiers[k],
       index |-> indices_to_keep[k],
       product_title |-> titles[k]]]

\* The comparisons sorted(pages_with_info, key=sort_key) makes
sort_key_less_of(pages_with_info) ==
   [i \in 1..Len(pages_with_info) |->
      [j \in 1..Len(pages_with_info) |->
         sort_key_less(pages_with_info[i], pages_with_info[j])]]

\* The entries of pages_with_info no later entry has the sort key of
last_of_each_key(pages_with_info) ==
   SelectSeq(pages_with_info,
             LAMBDA e : ~\E l \in 1..Len(pages_with_info) :
                            /\ sort_key(pages_with_info[l]) = sort_key(e)
                            /\ pages_with_info[l].index > e.index)

\* sort_pages by a sort that is not stable
sort_pages_unstable(pages_with_info) ==
   StableSort_unstable(pages_with_info, sort_key_less_of(pages_with_info))

\* sort_pages through a dictionary keyed by sort_key, which keeps the last
\* entry of every key
sort_pages_by_key_dict(pages_with_info) ==
   StableSort(last_of_each_key(pages_with_info),
              sort_key_less_of(last_of_each_key(pages_with_info)))

\* sort_pages keying every sorted entry by its position, counted from 1
sort_pages_rekeyed(pages_with_info) ==
   [k \in 1..Len(pages_with_info) |->
      [StableSort(pages_with_info, sort_key_less_of(pages_with_info))[k]
          EXCEPT !.index = k]]

\* pages_with_info_sorted of line 632
sort_pages(pages_with_info) ==
   StableSort(pages_with_info, sort_key_less_of(pages_with_info))

\* Step 5 (lines 592-635): every kept page is read again for its primary
\* product title, and the pages are sorted by sort_key.
SortPages ==
   /\ pc = "sort"
   /\ \E failing \in FailingSets(indices_to_keep) :
         \E titles \in {product_titles_read(indices_to_keep, failing)} :
         \E pages_with_info \in {pages_with_info_of(titles)} :
         \E pages_with_info_sorted \in {sort_pages(pages_with_info)} :
             /\ failures' = failures + Cardinality(failing)
             /\ page_product_titles' = titles
             /\ sorted_pages' =
                   [k \in 1..Len(pages_with_info_sorted) |-> pages_with_info_sorted[k].page]
             /\ sorted_indices' =
                   [k \in 1..Len(pages_with_info_sorted) |-> pages_with_info_sorted[k].index]
   /\ pc' = "save_slips"
   /\ UNCHANGED << packing_slips_deck, warehouse_map, abort_reason, idx,
                   selected_details, selection_failed, pages_to_keep, indices_to_keep,
                   page_areas_list, summary_reads, summary_details, manifest, summary_pages,
                   area_identifiers, annotated_packing_slips_pages,
                   shipping_labels_pages, slips_file, labels_file, call_vars >>

\* Step 6 (lines 649-664) with save_pdf (lines 461-468): the summary pages,
\* then the sorted pages, are written; save_pdf reports a failed write and
\* returns, and the run goes on.
SaveSlips ==
   /\ pc = "save_slips"
   /\ \E write_ok \in BOOLEAN :
         slips_file' = IF write_ok
                       THEN [written |-> TRUE, pages |-> summary_pages \o sorted_pages]
                       ELSE slips_file
   /\ pc' = "labels"
   /\ UNCHANGED << packing_slips_deck, warehouse_map, abort_reason, idx, failures,
                   selected_details, selection_failed, pages_to_keep, indices_to_keep,
                   page_areas_list, summary_reads, summary_details, manifest, summary_pages,
                   area_identifiers, annotated_packing_slips_pages,
                   page_product_titles, sorted_pages, sorted_indices,
                   shipping_labels_pages, labels_file, call_vars >>

\* The page counts a shipping-label deck may have, around total_pages
LabelCounts == {n \in (total_pages - 1)..(total_pages + 1) : n >= 0}

\* The indices the label writer loop runs over, using the kept order
label_order_unsorted == indices_to_keep

\* The indices the label writer loop runs over (line 730)
label_order == sorted_indices

\* The text of page k of the shipping-label deck: the pages of odd index
\* are blank.
label_text(k) ==
   IF k % 2 = 1 THEN << >>
   ELSE <<"S","h","i","p"," ","t","o",":"," ","1"," ","M","a","i","n"," ",
          "S","t","r","e","e","t">>

\* is_likely_blank of line 735
is_likely_blank(page_text) == page_text = << >> \/ Len(Strip(page_text)) < 20

\* pick_labels leaving out the label pages that look blank
RECURSIVE pick_labels_skip_blank(_, _)
pick_labels_skip_blank(labels, order) ==
   IF order = << >> THEN << >>
   ELSE (IF Head(order) < Len(labels) /\ ~is_likely_blank(labels[Head(order) + 1].text)
         THEN << labels[Head(order) + 1] >> ELSE << >>)
        \o pick_labels_skip_blank(labels, Tail(order))

\* The pages added to sorted_shipping_labels_writer (lines 730-750): the
\* label page of each index in range, in order, whether its text looks
\* blank or not
RECURSIVE pick_labels(_, _)
pick_labels(labels, order) ==
   IF order = << >> THEN << >>
   ELSE (IF Head(order) < Len(labels) THEN << labels[Head(order) + 1] >> ELSE << >>)
        \o pick_labels(labels, Tail(order))

\* Step 7 (lines 666-754): the label deck is read and its page count is
\* checked against the slip deck, the sorted indices are checked against
\* it, and the label pages are written in sorted order; a failed write
\* raises into the except clause of line 814.
ProcessLabels ==
   /\ pc = "labels"
   /\ \E n \in LabelCounts, write_ok \in BOOLEAN :
         \E labels \in {[k \in 1..n |-> [deck |-> "labels", original_index |-> k - 1,
                                          overlay |-> << >>,
                                          text |-> label_text(k - 1)]]} :
         \E invalid_indices \in
               {{k \in 1..Len(sorted_indices) : sorted_indices[k] >= n}} :
             /\ shipping_labels_pages' = labels
             /\ IF n # total_pages
                THEN Abort("label_count_mismatch") /\ labels_file' = labels_file
                ELSE IF invalid_indices # {}
                THEN Abort("invalid_label_indices") /\ labels_file' = labels_file
                ELSE IF ~write_ok
                THEN Abort("exception") /\ labels_file' = labels_file
                ELSE /\ labels_file' = [written |-> TRUE,
                                        pages |-> pick_labels(labels, label_order)]
                     /\ pc' = "done"
                     /\ abort_reason' = abort_reason
   /\ UNCHANGED << packing_slips_deck, warehouse_map, idx, failures,
                   selected_details, selection_failed, pages_to_keep, indices_to_keep,
                   page_areas_list, summary_reads, summary_details, manifest, summary_pages,
                   area_identifiers, annotated_packing_slips_pages,
                   page_product_titles, sorted_pages, sorted_indices,
                   slips_file, call_vars >>

Next ==
   \/ Start
   \/ SelectPage
   \/ EndSelect
   \/ GenerateSummary
   \/ Annotate
   \/ SortPages
   \/ SaveSlips
   \/ ProcessLabels

Spec == Init /\ [][Next]_vars

\* ------------------------------------------------------------------------
\* Stand-alone calls of the area resolver and of the composer
\* ------------------------------------------------------------------------

\* No run is in progress.
RunIdle ==
   /\ packing_slips_deck = << >>
   /\ warehouse_map = MainMap
   /\ pc = "idle"
   /\ abort_reason = ""
   /\ idx = 0
   /\ failures = 0
   /\ selected_details = << >>
   /\ selection_failed = {}
   /\ pages_to_keep = << >>
   /\ indices_to_keep = << >>
   /\ page_areas_list = << >>
   /\ summary_reads = {}
   /\ summary_details = << >>
   /\ manifest = << >>
   /\ summary_pages = << >>
   /\ area_identifiers = << >>
   /\ annotated_packing_slips_pages = << >>
   /\ page_product_titles = << >>
   /\ sorted_pages = << >>
   /\ sorted_indices = << >>
   /\ shipping_labels_pages = << >>
   /\ slips_file = NotWritten
   /\ labels_file = NotWritten

\* Product titles handed to the resolver: map keys, titles a key is part
\* of or that are part of a key, sample titles, and titles not normalized
ResolverTitles ==
   { <<"t","e","e">>, <<"t","e","e","s">>, <<"t","e">>, <<"h","a","t">>,
     <<"f","r","e","e"," ","s","a","m","p","l","e">>, <<"s","a","m","p","l","e">>,
     <<"F","r","e","e"," ","S","A","M","P","L","E">>, <<"T","e","e">>,
     <<" ","t","e","e">>, <<"m","u","g">> }

ResolverKeys ==
   { <<"t","e","e">>, <<"h","a","t">>, <<"f","r","e","e"," ","s","a","m","p","l","e">> }

ResolverAreas == { <<"B","1","1">>, <<"A","1","3">> }

\* Every warehouse map over some of the keys
ResolverMaps == UNION {[K -> ResolverAreas] : K \in SUBSET ResolverKeys}

AreaInit ==
   /\ RunIdle
   /\ call_args \in {[fn |-> "get_warehouse_area", product |-> p, warehouse_map |-> m] :
                        p \in ResolverTitles, m \in ResolverMaps}
   /\ call_result = NoCall
   /\ parser_locals = ParserIdle

AreaCall ==
   /\ call_args.fn = "get_warehouse_area"
   /\ call_result = NoCall
   /\ call_result' = [fn |-> "get_warehouse_area",
                      value |-> get_warehouse_area(call_args.product,
                                                   call_args.warehouse_map)]
   /\ UNCHANGED << run_vars, call_args, parser_locals >>

SpecArea == AreaInit /\ [][AreaCall]_vars

\* Areas a page may resolve to
ComposeAreas ==
   { <<"A","1","3">>, <<"D","1","6">>, <<"B","1","1">>, s_B16, s_garage,
     s_unknown_area, <<"C","0","1">> }

ComposeInit ==
   /\ RunIdle
   /\ call_args \in {[fn |-> "determine_area_identifier", product_areas |-> S] :
                        S \in SUBSET ComposeAreas}
   /\ call_result = NoCall
   /\ parser_locals = ParserIdle

ComposeCall ==
   /\ call_args.fn = "determine_area_identifier"
   /\ call_result = NoCall
   /\ call_result' = [fn |-> "determine_area_identifier",
                      value |-> determine_area_identifier(call_args.product_areas)]
   /\ UNCHANGED << run_vars, call_args, parser_locals >>

SpecCompose == ComposeInit /\ [][ComposeCall]_vars

\* ------------------------------------------------------------------------
\* Stand-alone calls of the summary aggregator
\* ------------------------------------------------------------------------

\* Most pages of a deck handed to generate_summary
MaxSummaryPages == 2

\* One item of size S in B11
page_tee_s ==
   Join(<< <<"I","T","E","M","S">>,
           <<"T","e","e">>,
           <<"S">> >>, <<"\n">>)

\* One item of size 2 in B11
page_tee_2 ==
   Join(<< <<"I","T","E","M","S">>,
           <<"T","e","e">>,
           <<"2">> >>, <<"\n">>)

SummaryTexts == {page_tee, page_tee_s, page_tee_2, page_multi, page_sample, page_mug}

SummaryDecks == UNION {[1..n -> SummaryTexts] : n \in 0..MaxSummaryPages}

\* Every order of the page indices of a deck of n pages
IndexOrders(n) ==
   {order \in [1..n -> 0..(n - 1)] :
       \A a \in 1..n : \A b \in 1..n : order[a] = order[b] => a = b}

\* generate_summary is handed the path of a deck and the indices of its
\* pages, all kept, in some order.
SummaryInit ==
   /\ packing_slips_deck \in SummaryDecks
   /\ warehouse_map = MainMap
   /\ pc = "idle"
   /\ abort_reason = ""
   /\ idx = 0
   /\ failures = 0
   /\ selected_details = << >>
   /\ selection_failed = {}
   /\ pages_to_keep = << >>
   /\ indices_to_keep = << >>
   /\ page_areas_list = << >>
   /\ summary_reads = {}
   /\ summary_details = << >>
   /\ manifest = << >>
   /\ summary_pages = << >>
   /\ area_identifiers = << >>
   /\ annotated_packing_slips_pages = << >>
   /\ page_product_titles = << >>
   /\ sorted_pages = << >>
   /\ sorted_indices = << >>
   /\ shipping_labels_pages = << >>
   /\ slips_file = NotWritten
   /\ labels_file = NotWritten
   /\ call_args \in {[fn |-> "generate_summary", indices_to_keep |-> order] :
                        order \in IndexOrders(Len(packing_slips_deck))}
   /\ call_result = NoCall
   /\ parser_locals = ParserIdle

SummaryCall ==
   /\ call_args.fn = "generate_summary"
   /\ call_result = NoCall
   /\ call_result' = [fn |-> "generate_summary",
                      value |-> generate_summary(call_args.indices_to_keep, {})]
   /\ UNCHANGED << run_vars, call_args, parser_locals >>

SpecSummary == SummaryInit /\ [][SummaryCall]_vars

\* ------------------------------------------------------------------------
\* Properties
\* ------------------------------------------------------------------------

\* The sort of step 5 has run.
Sorted ==
   \/ pc \in {"save_slips", "labels", "done"}
   \/ (pc = "aborted"
       /\ abort_reason \in {"label_count_mismatch", "invalid_label_indices", "exception"})

IsSlipPage(p) == p.deck = "slips"

\* The slip pages of a written file, its manifest pages left out
SlipPagesOf(file) == SelectSeq(file.pages, IsSlipPage)

Range(f) == {f[k] : k \in DOMAIN f}

Count(f, x) == Cardinality({k \in DOMAIN f : f[k] = x})

\* The position of original index x in the kept index list
KeptPosition(x) == CHOOSE k \in 1..Len(indices_to_keep) : indices_to_keep[k] = x

\* The text of a label before its first comma, without surrounding blanks
FirstToken(label) ==
   LET commas == {p \in 1..Len(label) : label[p] = ","}
   IN  IF commas = {} THEN Strip(label)
       ELSE Strip(SubSeq(label, 1, SetMin(commas) - 1))

\* areaRank of a composed area label
AreaRank(label) ==
   LET at == {k \in 1..Len(AREA_SORT_ORDER) : AREA_SORT_ORDER[k] = FirstToken(label)}
   IN  IF at = {} THEN Len(AREA_SORT_ORDER) ELSE SetMin(at) - 1

\* (areaRank, productTitle) of the kept page with original index x
PageKey(x) ==
   << AreaRank(area_identifiers[KeptPosition(x)]),
      page_product_titles[KeptPosition(x)] >>

\* (areaRank, productTitle) of every kept page, by kept position
SortKeys ==
   [k \in 1..Len(indices_to_keep) |->
      << AreaRank(area_identifiers[k]), page_product_titles[k] >>]

\* ka <= kb on (areaRank, productTitle) pairs
KeyLeq(ka, kb) ==
   \/ ka[1] < kb[1]
   \/ (ka[1] = kb[1] /\ ~StrLess(kb[2], ka[2]))

\* C1: in a run that wrote both output files, the sorted packing-slip file
\* (its manifest pages left out) and the sorted shipping-label file have
\* the same number of pages, and at every position the slip page and the
\* label page come from the same original page index.
C1_SlipAndLabelSameOrigin ==
   (slips_file.written /\ labels_file.written) =>
      /\ Len(SlipPagesOf(slips_file)) = Len(labels_file.pages)
      /\ \A i \in 1..Len(labels_file.pages) :
            /\ labels_file.pages[i].deck = "labels"
            /\ SlipPagesOf(slips_file)[i].original_index
                  = labels_file.pages[i].original_index

\* A run wrote both files with two pages in an order other than the
\* original one.
C1_Witness ==
   /\ slips_file.written
   /\ labels_file.written
   /\ Len(labels_file.pages) = 2
   /\ labels_file.pages[1].original_index = 1
   /\ labels_file.pages[2].original_index = 0

\* C2: when the shipping-label deck has another page count than the
\* original packing-slip deck, the run aborts without either output file
\* having been written.  The sorted packing slips are saved before the
\* label deck is read, so a run that aborts on the count has written them.
C2_NoOutputOnCountMismatch ==
   (pc = "aborted" /\ abort_reason = "label_count_mismatch") =>
      (~slips_file.written /\ ~labels_file.written)

\* C3: once the pages are sorted, the sorted index list is a permutation of
\* the kept index list, and a run that completes has written as many label
\* pages as slip pages were kept.
C3_SortedIsPermutationOfKept ==
   /\ Sorted =>
         /\ Len(sorted_indices) = Len(indices_to_keep)
         /\ \A x \in Range(sorted_indices) \cup Range(indices_to_keep) :
               Count(sorted_indices, x) = Count(indices_to_keep, x)
   /\ pc = "done" => Len(labels_file.pages) = Len(pages_to_keep)

\* A run completed after the sort exchanged its two kept pages.
C3_Witness ==
   /\ pc = "done"
   /\ indices_to_keep = << 0, 1 >>
   /\ sorted_indices = << 1, 0 >>

\* C7: two kept pages with the same sort key (areaRank, productTitle) are
\* in the sorted index list in the order of their original page indices.
C7_SortIsStable ==
   Sorted =>
      \A keys \in {SortKeys} :
          \A i \in 1..Len(sorted_indices) : \A j \in 1..Len(sorted_indices) :
             (/\ i < j
              /\ keys[KeptPosition(sorted_indices[i])] = keys[KeptPosition(sorted_indices[j])])
                => sorted_indices[i] < sorted_indices[j]

\* Two kept pages with the same sort key have been sorted.
C7_Witness ==
   /\ pc = "done"
   /\ Len(sorted_indices) = 2
   /\ PageKey(0) = PageKey(1)

\* C8: the sorted index list is in non-decreasing order of (areaRank,
\* productTitle): areaRank is the position in AREA_SORT_ORDER of the first
\* comma-separated token of the page's area label, or the length of
\* AREA_SORT_ORDER for a token it does not list, whatever the other tokens
\* are; productTitle is the title the sort recorded for the page, which,
\* for a page whose text the sort could read, is the lowercased title of
\* the first item parsed on the page.
C8_SortedByRankThenTitle ==
   Sorted =>
      \A keys \in {SortKeys} :
          /\ \A i \in 1..Len(sorted_indices) : \A j \in 1..Len(sorted_indices) :
                i < j => KeyLeq(keys[KeptPosition(sorted_indices[i])],
                                keys[KeptPosition(sorted_indices[j])])
          /\ \A k \in 1..Len(indices_to_keep) :
                page_product_titles[k] # << >> =>
                   page_product_titles[k]
                      = Lower(selected_details[indices_to_keep[k] + 1][1].product_title)

\* A page of area B11 was sorted before a page labelled "B11, D16" that
\* follows it in the deck, although D16 comes before B11 in AREA_SORT_ORDER.
C8_Witness ==
   /\ pc = "done"
   /\ area_identifiers = << <<"B","1","1">>, <<"B","1","1",","," ","D","1","6">> >>
   /\ page_product_titles = << <<"t","e","e">>, <<"w","i","g">> >>
   /\ sorted_indices = << 0, 1 >>

\* C9: a page that parsed to no item is not in the kept index list, not in
\* the sorted index list, not among the pages of either written file and
\* not among the pages the summary is built from.
C9_EmptyPageExcluded ==
   \A i \in 1..Len(selected_details) :
      selected_details[i] = << >> =>
         /\ (i - 1) \notin Range(indices_to_keep)
         /\ (i - 1) \notin Range(sorted_indices)
         /\ \A k \in 1..Len(SlipPagesOf(slips_file)) :
               SlipPagesOf(slips_file)[k].original_index # i - 1
         /\ \A k \in 1..Len(labels_file.pages) :
               labels_file.pages[k].original_index # i - 1
         /\ (i - 1) \notin summary_reads

\* A run completed and wrote both files for a deck with a page that parsed
\* to no item.
C9_Witness ==
   /\ pc = "done"
   /\ slips_file.written
   /\ \E i \in 1..Len(selected_details) : selected_details[i] = << >>
   /\ \E i \in 1..Len(selected_details) : selected_details[i] # << >>

\* C10: a page whose items resolve to at least one area, or that has an
\* item whose normalized title contains "sample", has its original index
\* exactly once in the kept index list, and the kept index list is in
\* ascending order.
C10_PageWithAreaOrSampleKept ==
   /\ \A i \in 1..Len(selected_details) :
         (\/ product_areas_of(selected_details[i], warehouse_map) # {}
          \/ \E k \in 1..Len(selected_details[i]) :
                Contains(Strip(Lower(selected_details[i][k].product_title)), s_sample))
            => Count(indices_to_keep, i - 1) = 1
   /\ \A k \in 1..Len(indices_to_keep) : \A l \in 1..Len(indices_to_keep) :
         k < l => indices_to_keep[k] < indices_to_keep[l]

\* A page whose only item is a sample was kept after a page with a mapped
\* item.
C10_Witness ==
   /\ pc = "done"
   /\ indices_to_keep = << 0, 1 >>
   /\ Len(selected_details[2]) = 1
   /\ Contains(Lower(selected_details[2][1].product_title), s_sample)
   /\ ~Contains(Lower(selected_details[1][1].product_title), s_sample)

\* C4: for a product whose normalized title contains "sample", the
\* resolver returns "garage" whatever the warehouse map holds.
C4_SampleAlwaysGarage ==
   (call_result.fn = "get_warehouse_area"
    /\ Contains(Strip(Lower(call_args.product)), s_sample))
      => call_result.value = s_garage

\* The resolver returned for a sample title that the warehouse map places
\* in an area other than garage.
C4_Witness ==
   /\ call_result.fn = "get_warehouse_area"
   /\ Contains(Strip(Lower(call_args.product)), s_sample)
   /\ call_args.product \in DOMAIN call_args.warehouse_map
   /\ call_args.warehouse_map[call_args.product] # s_garage

\* C5: for a normalized title that does not contain "sample", the resolver
\* returns the area of the map entry whose key is the title, and "Unknown
\* Area" when no key is the title, also when a key is part of the title or
\* the title part of a key.
C5_ExactMatchOrUnknown ==
   (call_result.fn = "get_warehouse_area"
    /\ call_args.product = Strip(Lower(call_args.product))
    /\ ~Contains(call_args.product, s_sample))
      => /\ \A key \in DOMAIN call_args.warehouse_map :
               key = call_args.product
                  => call_result.value = call_args.warehouse_map[key]
         /\ (\A key \in DOMAIN call_args.warehouse_map : key # call_args.product)
               => call_result.value = s_unknown_area

\* The resolver returned for a normalized title that is no key of the map
\* while a key of the map is part of it.
C5_Witness ==
   /\ call_result.fn = "get_warehouse_area"
   /\ call_args.product = Strip(Lower(call_args.product))
   /\ ~Contains(call_args.product, s_sample)
   /\ call_args.product \notin DOMAIN call_args.warehouse_map
   /\ \E key \in DOMAIN call_args.warehouse_map : Contains(call_args.product, key)

\* The areas the composed label lists
ComposedAreas(product_areas) ==
   IF s_B16 \in product_areas /\ Cardinality(product_areas) > 1
   THEN product_areas \ {s_B16}
   ELSE product_areas

\* The comma-separated tokens of a label
LabelTokens(label) ==
   IF label = << >> THEN << >>
   ELSE [k \in 1..Len(Split(label, ",")) |-> Strip(Split(label, ",")[k])]

\* C6: the composed label is the areas of the set joined by ", " in
\* ascending order, B16 being left out exactly when the set holds B16 and
\* another area; {B16} gives "B16", {B16, D16} gives "D16" and {A13, D16}
\* gives "A13, D16".
C6_ComposedLabel ==
   call_result.fn = "determine_area_identifier" =>
      LET product_areas == call_args.product_areas
          label == call_result.value
          tokens == LabelTokens(label)
      IN  /\ Range(tokens) = ComposedAreas(product_areas)
          /\ \A k \in 1..(Len(tokens) - 1) : StrLess(tokens[k], tokens[k + 1])
          /\ label = Join(tokens, <<",", " ">>)
          /\ product_areas = {s_B16} => label = s_B16
          /\ product_areas = {s_B16, <<"D","1","6">>} => label = <<"D","1","6">>
          /\ product_areas = {<<"A","1","3">>, <<"D","1","6">>}
                => label = <<"A","1","3",","," ","D","1","6">>

\* The composer returned "D16" for the set {B16, D16}.
C6_Witness ==
   /\ call_result.fn = "determine_area_identifier"
   /\ call_args.product_areas = {s_B16, <<"D","1","6">>}
   /\ call_result.value = <<"D","1","6">>

\* generate_summary has returned.
SummaryDone ==
   \/ pc \in {"annotate", "sort", "save_slips", "labels", "done"}
   \/ (pc = "aborted"
       /\ abort_reason \in {"label_count_mismatch", "invalid_label_indices", "exception"})

\* The line items of a sequence of pages, page after page
RECURSIVE ItemsOfPages(_)
ItemsOfPages(details_list) ==
   IF details_list = << >> THEN << >>
   ELSE Head(details_list) \o ItemsOfPages(Tail(details_list))

\* The area a line item resolves to
ItemArea(item) == get_warehouse_area(Strip(Lower(item.product_title)), warehouse_map)

\* The sum of a sequence of numbers
RECURSIVE SeqSum(_)
SeqSum(q) == IF q = << >> THEN 0 ELSE Head(q) + SeqSum(Tail(q))

\* The sum of the quantities of the items of an area with a title and
\* size, areas holding the area of each item
QuantitySum(items, areas, area, title, size) ==
   SeqSum([i \in 1..Len(items) |->
             IF areas[i] = area /\ items[i].product_title = title /\ items[i].size = size
             THEN ParseInt(items[i].quantity) ELSE 0])

\* The position of an area in AREA_SORT_ORDER, 0 for an area it does not list
ListedPosition(area) ==
   IF \E k \in 1..Len(AREA_SORT_ORDER) : AREA_SORT_ORDER[k] = area
   THEN CHOOSE k \in 1..Len(AREA_SORT_ORDER) : AREA_SORT_ORDER[k] = area
   ELSE 0

\* C11: in every manifest section no two rows have the same (title, size),
\* the quantity of a row is the sum of the quantities of the line items of
\* that title and size the summary read on kept pages for the area of the
\* section, and every such item of a listed area has its row; the items the
\* summary read on a page it could read are the items the page was selected
\* with.
C11_OneRowPerPairWithTotal ==
   SummaryDone =>
      \A items \in {ItemsOfPages(summary_details)} :
      \A areas \in {[i \in 1..Len(items) |-> ItemArea(items[i])]} :
          /\ \A k \in 1..Len(manifest) :
                \A r1 \in 1..Len(manifest[k].rows) : \A r2 \in 1..Len(manifest[k].rows) :
                   (/\ manifest[k].rows[r1].product_title
                          = manifest[k].rows[r2].product_title
                    /\ manifest[k].rows[r1].size = manifest[k].rows[r2].size) => r1 = r2
          /\ \A k \in 1..Len(manifest) : \A r \in 1..Len(manifest[k].rows) :
                manifest[k].rows[r].quantity
                   = QuantitySum(items, areas, manifest[k].area,
                                 manifest[k].rows[r].product_title,
                                 manifest[k].rows[r].size)
          /\ \A i \in 1..Len(items) :
                ListedPosition(areas[i]) # 0 =>
                   \E k \in 1..Len(manifest) : \E r \in 1..Len(manifest[k].rows) :
                      /\ manifest[k].area = areas[i]
                      /\ manifest[k].rows[r].product_title = items[i].product_title
                      /\ manifest[k].rows[r].size = items[i].size
          /\ \A k \in 1..Len(summary_details) :
                summary_details[k] # << >> =>
                   summary_details[k] = selected_details[indices_to_keep[k] + 1]

\* The items ("Tee","M",2) of one page and ("Tee","M",3) of another gave
\* the one row ("Tee","M",5) of the section of B11.
C11_Witness ==
   /\ pc = "done"
   /\ \E k \in 1..Len(manifest) : \E r \in 1..Len(manifest[k].rows) :
         /\ manifest[k].area = <<"B","1","1">>
         /\ manifest[k].rows[r] = [product_title |-> <<"T","e","e">>,
                                   size |-> <<"M">>, quantity |-> 5]

\* C12: the manifest sections are in the order of AREA_SORT_ORDER, one
\* section with at least one row for each listed area an item the summary
\* read resolves to, and none for any other area: an item of an area that
\* AREA_SORT_ORDER does not list is in no section.
C12_SectionsInAreaOrder ==
   SummaryDone =>
      \A items \in {ItemsOfPages(summary_details)} :
      \A areas \in {[i \in 1..Len(items) |-> ItemArea(items[i])]} :
          /\ \A k \in 1..Len(manifest) :
                /\ ListedPosition(manifest[k].area) # 0
                /\ manifest[k].rows # << >>
                /\ \E i \in 1..Len(items) : areas[i] = manifest[k].area
          /\ \A k \in 1..Len(manifest) : \A l \in 1..Len(manifest) :
                k < l => ListedPosition(manifest[k].area)
                            < ListedPosition(manifest[l].area)
          /\ \A i \in 1..Len(items) :
                IF ListedPosition(areas[i]) # 0
                THEN \E k \in 1..Len(manifest) : manifest[k].area = areas[i]
                ELSE \A k \in 1..Len(manifest) : \A r \in 1..Len(manifest[k].rows) :
                        manifest[k].rows[r].product_title # items[i].product_title

\* A run completed whose manifest has the sections of D16, B11 and B16 in
\* this order while the summary also read an item of the unlisted area C01.
C12_Witness ==
   /\ pc = "done"
   /\ Len(manifest) = 3
   /\ manifest[1].area = <<"D","1","6">>
   /\ manifest[2].area = <<"B","1","1">>
   /\ manifest[3].area = s_B16
   /\ \E i \in 1..Len(ItemsOfPages(summary_details)) :
         ItemArea(ItemsOfPages(summary_details)[i]) = <<"C","0","1">>

\* C13: a run in which the selection loop kept no page does not go past
\* the selection: once every page has been looked at it has aborted for
\* want of pages to keep, and it has written neither output file.
C13_NoKeptPagesAborts ==
   pages_to_keep = << >> =>
      /\ pc \in {"start", "select", "aborted"}
      /\ (pc = "aborted" /\ total_pages > 0 /\ idx = total_pages)
            => abort_reason = "no_pages_to_keep"
      /\ ~slips_file.written
      /\ ~labels_file.written

\* A run over a deck of two pages aborted because no page was kept.
C13_Witness ==
   /\ pc = "aborted"
   /\ abort_reason = "no_pages_to_keep"
   /\ total_pages = 2
   /\ idx = 2

\* The run is past step 6 and the sorted packing slips were not written.
SlipWriteFailed ==
   /\ ~slips_file.written
   /\ \/ pc \in {"labels", "done"}
      \/ (pc = "aborted"
          /\ abort_reason \in {"label_count_mismatch", "invalid_label_indices",
                               "exception"})

\* C14: when the write of the sorted packing slips fails the run aborts at
\* that step, so the shipping-label deck is not read and no sorted
\* shipping-label file is written.  save_pdf catches the failure and
\* returns, and the run goes on with step 7.
C14_AbortOnFailedSlipWrite ==
   SlipWriteFailed =>
      /\ pc = "aborted"
      /\ shipping_labels_pages = << >>
      /\ ~labels_file.written

\* The items of each page text of the decks under the map of the runs
PageItems == [t \in PageTexts |-> extract_product_details(t, MainMap)]

\* C15: a page whose text extraction failed during selection parsed to no
\* item and is not kept; the failure does not end the run, which looks at
\* every page of the deck: every page whose extraction did not fail is
\* kept when it has an item, and while the selection runs and when it has
\* looked at the last page the items of such a page are those of its own
\* text.
C15_FailedExtractionDropsOnlyThatPage ==
   /\ \A i \in selection_failed :
         /\ selected_details[i + 1] = << >>
         /\ i \notin Range(indices_to_keep)
   /\ Len(selected_details) = idx
   /\ pc \notin {"start", "select"} /\ abort_reason \notin {"no_save_directory", "empty_deck"}
         => idx = total_pages
   /\ (pc = "aborted" /\ idx < total_pages)
         => abort_reason \in {"no_save_directory", "empty_deck"}
   /\ \A i \in 0..(idx - 1) :
         i \notin selection_failed =>
            (selected_details[i + 1] # << >> => Count(indices_to_keep, i) = 1)
   /\ pc = "select" =>
         \A i \in 0..(idx - 1) :
            i \notin selection_failed =>
               /\ warehouse_map = MainMap
               /\ selected_details[i + 1] = PageItems[packing_slips_deck[i + 1]]

\* A run completed in which the text of the first page, a page with an
\* item, could not be extracted and the second page was kept.
C15_Witness ==
   /\ pc = "done"
   /\ selection_failed = {0}
   /\ PageItems[packing_slips_deck[1]] # << >>
   /\ indices_to_keep = << 1 >>

\* C16: the written packing-slip file holds the summary pages and then the
\* kept pages in sorted order, each with its area label drawn on, so it
\* has as many pages as there are summary pages and kept pages together;
\* the written label file holds, position by position, the label page of
\* the sorted index, whatever the text of the label pages.
C16_OutputDeckLayout ==
   /\ slips_file.written =>
         /\ Len(slips_file.pages) = Len(summary_pages) + Len(pages_to_keep)
         /\ \A k \in 1..Len(summary_pages) : slips_file.pages[k].deck = "summary"
         /\ \A k \in 1..Len(sorted_indices) :
               /\ slips_file.pages[Len(summary_pages) + k].deck = "slips"
               /\ slips_file.pages[Len(summary_pages) + k].original_index
                     = sorted_indices[k]
               /\ slips_file.pages[Len(summary_pages) + k].overlay
                     = area_identifiers[KeptPosition(sorted_indices[k])]
   /\ labels_file.written =>
         /\ Len(labels_file.pages) = Len(sorted_indices)
         /\ \A k \in 1..Len(sorted_indices) :
               labels_file.pages[k] = shipping_labels_pages[sorted_indices[k] + 1]

\* A run wrote a summary page followed by its two kept pages in exchanged
\* order, and the label pages in the same order, the first of them a page
\* without text.
C16_Witness ==
   /\ pc = "done"
   /\ slips_file.written
   /\ Len(summary_pages) = 1
   /\ Len(slips_file.pages) = 3
   /\ sorted_indices = << 1, 0 >>
   /\ labels_file.pages[1].text = << >>
   /\ labels_file.pages[2].text # << >>

\* ------------------------------------------------------------------------
\* Stand-alone calls of the parser
\* ------------------------------------------------------------------------

\* The most lines a page text has after its items marker
MaxParseLines == 4

\* The lines a page text is made of after its items marker: titles of the
\* map, sample titles, size lines, a blank line and a stop phrase
ParseLineChoices ==
   { <<"T","e","e">>, <<"H","a","t">>, <<"M">>,
     <<"M"," ","0"," ","o","f"," ","1">>, << >>, <<"N","O","T","E","S">>,
     <<"F","r","e","e"," ","S","a","m","p","l","e">>,
     <<"s","a","m","p","l","e"," ","s","i","z","e"," ","7">> }

\* What precedes the items marker
ParsePrefixes == { << >>, << <<"O","r","d","e","r"," ","1">> >> }

ParseTexts ==
   {Join(prefix \o << s_ITEMS >> \o body, <<"\n">>) :
       prefix \in ParsePrefixes,
       body \in UNION {[1..n -> ParseLineChoices] : n \in 0..MaxParseLines}}

\* A warehouse map with a single product
SmallMap == (<<"t","e","e">> :> <<"B","1","1">>)

ParseInit ==
   /\ RunIdle
   /\ call_args \in {[fn |-> "extract_product_details", text |-> t, warehouse_map |-> m] :
                        t \in ParseTexts, m \in {MainMap, SmallMap}}
   /\ call_result = NoCall
   /\ parser_locals = ParserIdle

ParseCall ==
   /\ call_args.fn = "extract_product_details"
   /\ call_result = NoCall
   /\ call_result' = [fn |-> "extract_product_details",
                      value |-> extract_product_details(call_args.text,
                                                        call_args.warehouse_map)]
   /\ UNCHANGED << run_vars, call_args, parser_locals >>

SpecParse == ParseInit /\ [][ParseCall]_vars

\* ------------------------------------------------------------------------
\* The parser stepped through, one loop iteration at a time
\* ------------------------------------------------------------------------

\* The most lines a stepped page text has after its last fixed line
MaxStepLines == 3

\* Lines of a stepped page text: a title of the map, a title that is not in
\* it, a size, SKU lines, a line with the SKU marker inside it, a blank
\* line, a sample title and a size line whose size is not acceptable
StepLineChoices ==
   { <<"T","e","e">>, <<"B","o","x">>, <<"M">>, <<"S","K","U"," ","9">>,
     <<"N","o"," ","S","K","U">>, <<"L","B"," ","2">>, << >>,
     <<"F","r","e","e"," ","S","a","m","p","l","e">>,
     <<"X","L"," ","1"," ","o","f"," ","1">> }

\* What precedes the body: nothing, a header line, an items section that
\* has ended; then the items marker, or none
StepPrefixes ==
   { << >>, << <<"O","r","d","e","r"," ","1">> >>, << s_ITEMS, << >> >> }

StepMarkers == { << s_ITEMS >>, << >> }

StepTexts ==
   {Join(prefix \o marker \o body, <<"\n">>) :
       prefix \in StepPrefixes, marker \in StepMarkers,
       body \in UNION {[1..n -> StepLineChoices] : n \in 0..MaxStepLines}}

\* lines of line 870 for a text
parser_lines(text) == Split(text, "\n")

\* What the loops do at each line depends on the text and the map only, and
\* is worked out when the call is made: whether line k holds the marker
\* (line 885), and what an iteration of the inner loop at line k does
\* (lines 887-957).
parser_markers(lines) ==
   [k \in 1..Len(lines) |-> Contains(Strip(lines[k]), s_ITEMS)]

parser_steps(lines, wm) ==
   [k \in 1..Len(lines) |-> inner_step(lines, k, wm)]

\* The locals after an iteration that left them at position i of loop at
\* with the items product_details; i counts from 0 as in the source, and
\* the position and item count before the iteration are kept with them.
parser_after(at, i, product_details) ==
   [parser_locals EXCEPT !.at = at, !.i = i, !.product_details = product_details,
                         !.prev_at = parser_locals.at, !.prev_i = parser_locals.i,
                         !.prev_n = Len(parser_locals.product_details)]

\* No call of the parser has been made yet.
StepInit ==
   /\ RunIdle
   /\ call_args = NoCall
   /\ call_result = NoCall
   /\ parser_locals = ParserIdle

\* Lines 867-871 and 883: the parser is called with a page text and has
\* set up its locals.
StepCall ==
   /\ parser_locals = ParserIdle
   /\ \E t \in StepTexts :
         \E lines \in {parser_lines(t)} :
            /\ call_args' = [fn |-> "extract_product_details", text |-> t,
                             warehouse_map |-> MainMap]
            /\ parser_locals' =
                  [at |-> "outer", i |-> 0, product_details |-> << >>,
                   prev_at |-> "none", prev_i |-> 0, prev_n |-> 0,
                   len |-> Len(lines), markers |-> parser_markers(lines),
                   steps |-> parser_steps(lines, MainMap)]
   /\ UNCHANGED << run_vars, call_result >>

\* return product_details (line 961)
parser_return(product_details) ==
   call_result' = [fn |-> "extract_product_details", value |-> product_details]

\* One iteration of the outer loop (lines 883-886, 959-960): a line with
\* the marker starts the inner loop at the next line, any other is passed.
OuterIteration ==
   /\ parser_locals.at = "outer"
   /\ parser_locals.i < parser_locals.len
   /\ parser_locals' =
         parser_after(IF parser_locals.markers[parser_locals.i + 1]
                      THEN "inner" ELSE "outer",
                      parser_locals.i + 1, parser_locals.product_details)
   /\ UNCHANGED << run_vars, call_args, call_result >>

\* The outer loop runs off the lines (line 883) and the call returns.
OuterExit ==
   /\ parser_locals.at = "outer"
   /\ parser_locals.i >= parser_locals.len
   /\ parser_locals' = parser_after("returned", parser_locals.i,
                                    parser_locals.product_details)
   /\ parser_return(parser_locals.product_details)
   /\ UNCHANGED << run_vars, call_args >>

\* InnerIteration without the break of line 958: after the items section
\* the outer loop goes on looking for a marker.
InnerIteration_resume ==
   /\ parser_locals.at = "inner"
   /\ parser_locals.i < parser_locals.len
   /\ \E st \in {parser_locals.steps[parser_locals.i + 1]} :
         parser_locals' =
            parser_after(IF st.exit THEN "outer" ELSE "inner", st.next - 1,
                         parser_locals.product_details \o st.items)
   /\ UNCHANGED << run_vars, call_args, call_result >>

\* One iteration of the inner loop (lines 887-957); a break leaves the
\* inner loop, line 958 leaves the outer one, and the call returns.
InnerIteration ==
   /\ parser_locals.at = "inner"
   /\ parser_locals.i < parser_locals.len
   /\ \E st \in {parser_locals.steps[parser_locals.i + 1]} :
         /\ parser_locals' =
               parser_after(IF st.exit THEN "returned" ELSE "inner", st.next - 1,
                            parser_locals.product_details \o st.items)
         /\ IF st.exit
            THEN parser_return(parser_locals.product_details \o st.items)
            ELSE call_result' = call_result
   /\ UNCHANGED << run_vars, call_args >>

\* The inner loop runs off the lines (line 887); line 958 leaves the outer
\* loop and the call returns.
InnerExit ==
   /\ parser_locals.at = "inner"
   /\ parser_locals.i >= parser_locals.len
   /\ parser_locals' = parser_after("returned", parser_locals.i,
                                    parser_locals.product_details)
   /\ parser_return(parser_locals.product_details)
   /\ UNCHANGED << run_vars, call_args >>

\* The iterations of the two loops of a call
ParserLoops == OuterIteration \/ OuterExit \/ InnerIteration \/ InnerExit

StepNext == StepCall \/ ParserLoops

SpecParseSteps == StepInit /\ [][StepNext]_vars

\* The interpreter goes on executing a call until it returns.
SpecParseStepsFair == SpecParseSteps /\ WF_vars(ParserLoops)

\* The lines of the text handed to the parser
TextLines == Split(call_args.text, "\n")

\* The first line that holds the items marker
MarkerLine == SetMin({k \in 1..Len(TextLines) : Contains(TextLines[k], s_ITEMS)})

\* A blank line or a line holding a stop phrase
IsStopLine(line) ==
   \/ Strip(line) = << >>
   \/ \E phrase \in stop_phrases : Contains(Strip(line), phrase)

\* The first blank or stop-phrase line after the marker, or the line after
\* the last one
FirstStopLine ==
   SetMin({k \in (MarkerLine + 1)..Len(TextLines) : IsStopLine(TextLines[k])}
          \cup {Len(TextLines) + 1})

\* C17: every line item the parser returns has its title on a line after
\* the items marker and before the first blank or stop-phrase line that
\* follows the marker.  A blank or stop-phrase line read as the size line
\* of a title does not end the section, and the titles after it are parsed.
C17_NoItemAfterStopLine ==
   call_result.fn = "extract_product_details" =>
      \A k \in 1..Len(call_result.value) :
         \E j \in (MarkerLine + 1)..(FirstStopLine - 1) :
            Strip(TextLines[j]) = call_result.value[k].product_title

\* C18: when the line after the items marker is a sample title, the parser
\* returns an item for it, and when no line follows the title the item has
\* the size found after "size" in the title, else the size "Sample", and
\* the quantity 1.  A sample title on the last line of the text is dropped.
C18_SampleTitleYieldsItem ==
   (/\ call_result.fn = "extract_product_details"
    /\ Len(TextLines) > MarkerLine
    /\ Contains(Lower(Strip(TextLines[MarkerLine + 1])), s_sample)
    /\ ~IsStopLine(TextLines[MarkerLine + 1]))
      => /\ call_result.value # << >>
         /\ call_result.value[1].product_title = Strip(TextLines[MarkerLine + 1])
         /\ Len(TextLines) = MarkerLine + 1 =>
               /\ call_result.value[1].quantity = s_one
               /\ call_result.value[1].size
                     = IF Contains(Lower(TextLines[MarkerLine + 1]), s_size)
                       THEN <<"7">> ELSE s_Sample

\* C19: every line item the parser returns has a quantity that is a decimal
\* number of at least 1.  The quantity is the digits before "of" on the
\* size line, which may be 0.
C19_QuantityPositive ==
   call_result.fn = "extract_product_details" =>
      \A k \in 1..Len(call_result.value) :
         /\ IsDigits(call_result.value[k].quantity)
         /\ ParseInt(call_result.value[k].quantity) >= 1

\* C20: the items the summary is built from and the title a kept page is
\* sorted by are the items parsed for the page when it was selected.  Both
\* steps extract and parse the text of the page again, so a page whose
\* extraction fails then counts for no item in the summary, or is sorted
\* under the empty title.
C20_ItemsFixedAtSelection ==
   /\ SummaryDone =>
         \A k \in 1..Len(indices_to_keep) :
            summary_details[k] = selected_details[indices_to_keep[k] + 1]
   /\ Sorted =>
         \A k \in 1..Len(indices_to_keep) :
            page_product_titles[k]
               = Strip(Lower(selected_details[indices_to_keep[k] + 1][1].product_title))

\* The primary area of the kept page with original index x is one
\* AREA_SORT_ORDER lists.
PrimaryListed(x) == AreaRank(area_identifiers[KeptPosition(x)]) < Len(AREA_SORT_ORDER)

\* C21: in a run in which every text extraction succeeded, no kept page
\* with an unlisted primary area is sorted before a kept page with a listed
\* one, and the kept pages with an unlisted primary area are in the sorted
\* index list in the order of their original page indices.  The sort key
\* of line 630 orders the pages of one rank by their product title, the
\* pages of unlisted areas too.
C21_UnlistedLastInInputOrder ==
   (Sorted /\ failures = 0) =>
      \A i \in 1..Len(sorted_indices) : \A j \in 1..Len(sorted_indices) :
         (i < j /\ ~PrimaryListed(sorted_indices[i])) =>
            /\ ~PrimaryListed(sorted_indices[j])
            /\ sorted_indices[i] < sorted_indices[j]

\* C22: the manifest generate_summary lays out for the pages of a deck is
\* the one it lays out for the same pages handed over in any other order.
\* The rows of a section are in the order the sort of line 994 leaves the
\* bucket in, and that sort is stable: two entries with the same key, such
\* as sizes "S" and "2" of one title, both of rank 2, stay in page order.
C22_ManifestIgnoresPageOrder ==
   call_result.fn = "generate_summary" =>
      \A order \in IndexOrders(Len(packing_slips_deck)) :
         generate_summary(order, {}) = call_result.value

\* sizeRank of a size: the letter sizes XS..XXL are 1..6, "Size N" and the
\* numeral N are N, any other size is 100
SizeRank(size) ==
   IF size \in DOMAIN letter_sizes_order THEN letter_sizes_order[size]
   ELSE IF IsDigits(size) THEN ParseInt(size)
   ELSE IF Len(size) > 5 /\ SubSeq(size, 1, 5) = <<"S","i","z","e"," ">>
           /\ IsDigits(SubSeq(size, 6, Len(size)))
   THEN ParseInt(SubSeq(size, 6, Len(size)))
   ELSE 100

\* (lowercased title, sizeRank) of row a is at most that of row b
RowLeq(a, b) ==
   \/ StrLess(Lower(a.product_title), Lower(b.product_title))
   \/ /\ Lower(a.product_title) = Lower(b.product_title)
      /\ SizeRank(a.size) <= SizeRank(b.size)

\* C23: in every section of the manifest generate_summary lays out, the
\* rows are in non-decreasing order of (lowercased title, sizeRank(size)).
C23_RowsSortedByTitleThenSize ==
   call_result.fn = "generate_summary" =>
      \A k \in 1..Len(call_result.value) :
         \A a \in 1..Len(call_result.value[k].rows) :
            \A b \in 1..Len(call_result.value[k].rows) :
               a < b => RowLeq(call_result.value[k].rows[a], call_result.value[k].rows[b])

\* The page of a Tee of size M was handed over before the page of a Tee of
\* size S, and the row of size S comes first in the section of B11.
C23_Witness ==
   /\ call_result.fn = "generate_summary"
   /\ packing_slips_deck = << page_tee, page_tee_s >>
   /\ call_args.indices_to_keep = << 0, 1 >>
   /\ Len(call_result.value) = 1
   /\ call_result.value[1].rows
         = << [product_title |-> <<"T","e","e">>, size |-> <<"S">>, quantity |-> 1],
              [product_title |-> <<"T","e","e">>, size |-> <<"M">>, quantity |-> 2] >>

\* Stepping through the parser returns what the parser computes in one go.
StepsAgree ==
   parser_locals.at = "returned" =>
      call_result.value = extract_product_details(call_args.text, call_args.warehouse_map)

\* The line the last iteration of a loop of the parser started at
PrevLine == TextLines[parser_locals.prev_i + 1]

\* The last step was an iteration of the inner loop, at a line of the text.
InnerIterated ==
   parser_locals.prev_at = "inner" /\ parser_locals.prev_i < Len(TextLines)

\* The normalized title of a line: trimmed and lowercased
NormalTitle(line) == Lower(Strip(line))

\* A title the parser may accept: in the map, or with "sample" in it
IsProductTitle(line) ==
   \/ NormalTitle(line) \in DOMAIN call_args.warehouse_map
   \/ Contains(NormalTitle(line), s_sample)

\* The last iteration appended no item and the inner loop goes on.
NothingEmitted ==
   /\ parser_locals.at = "inner"
   /\ Len(parser_locals.product_details) = parser_locals.prev_n

\* C24: every line item the parser has collected has a normalized title
\* that is a key of the warehouse map or contains "sample"; and an
\* iteration of the inner loop at a line that is neither blank nor a stop
\* line and is not such a title appends nothing and leaves the loop at the
\* next line, which the next iteration reads as a title.
C24_OnlyKnownTitles ==
   parser_locals.at # "idle" =>
      /\ \A k \in 1..Len(parser_locals.product_details) :
            IsProductTitle(parser_locals.product_details[k].product_title)
      /\ (InnerIterated /\ ~IsStopLine(PrevLine) /\ ~IsProductTitle(PrevLine))
            => /\ NothingEmitted
               /\ parser_locals.i = parser_locals.prev_i + 1

\* After an item was collected, the line "Box" was passed over by one line.
C24_Witness ==
   /\ InnerIterated
   /\ PrevLine = <<"B","o","x">>
   /\ parser_locals.at = "inner"
   /\ parser_locals.i = parser_locals.prev_i + 1
   /\ Len(parser_locals.product_details) = 1

\* Some line of the text holds the items marker.
HasMarker == \E k \in 1..Len(TextLines) : Contains(TextLines[k], s_ITEMS)

\* C25: the parser collects no item from a text without a line holding the
\* items marker and returns the empty list for it; it collects nothing
\* while it looks for the marker, enters the items section at the first
\* marker line only, takes every item from a line after that line, and
\* once it has left the section it returns without looking for another
\* marker line.
C25_OneItemsSection ==
   parser_locals.at # "idle" =>
      /\ ~HasMarker =>
            /\ parser_locals.at # "inner"
            /\ parser_locals.product_details = << >>
            /\ parser_locals.at = "returned" => call_result.value = << >>
      /\ parser_locals.at = "outer" => parser_locals.product_details = << >>
      /\ (parser_locals.prev_at = "outer" /\ parser_locals.at = "inner")
            => parser_locals.prev_i + 1 = MarkerLine
      /\ parser_locals.prev_at = "inner" => parser_locals.at \in {"inner", "returned"}
      /\ \A k \in 1..Len(parser_locals.product_details) :
            \E j \in (MarkerLine + 1)..Len(TextLines) :
               Strip(TextLines[j]) = parser_locals.product_details[k].product_title
      /\ parser_locals.at = "returned" =>
            call_result.value = parser_locals.product_details

\* The parser returned no item for a text whose items section ends at a
\* blank line and is followed by a second marker line, a title and a size.
C25_Witness ==
   /\ parser_locals.at = "returned"
   /\ TextLines = << s_ITEMS, << >>, s_ITEMS, <<"T","e","e">>, <<"M">> >>
   /\ call_result.value = << >>

\* The line after the one the last iteration started at
PrevNextLine == TextLines[parser_locals.prev_i + 2]

\* A size line the parser takes a size from: it matches the pattern
\* "SIZE COUNT of TOTAL" with an acceptable size, or is an acceptable size.
IsSizeLine(line) ==
   \/ /\ match_size_quantity(Strip(line)).matched
      /\ match_size_quantity(Strip(line)).size \in acceptable_sizes
   \/ Strip(line) \in acceptable_sizes

\* C26: an iteration of the inner loop at an accepted title without
\* "sample" in it, followed by a line that is not a size line, appends no
\* item and leaves the loop at the line after the rejected line, so that
\* no iteration reads the rejected line as a title.
C26_RejectedSizeLineSkipped ==
   (/\ parser_locals.at # "idle"
    /\ InnerIterated
    /\ parser_locals.prev_i + 1 < Len(TextLines)
    /\ ~IsStopLine(PrevLine)
    /\ NormalTitle(PrevLine) \in DOMAIN call_args.warehouse_map
    /\ ~Contains(NormalTitle(PrevLine), s_sample)
    /\ ~IsSizeLine(PrevNextLine))
      => /\ NothingEmitted
         /\ parser_locals.i = parser_locals.prev_i + 2

\* The title "Tee" was followed by the line "Tee", a title of the map: the
\* second line was rejected as a size and the loop went on after it.
C26_Witness ==
   /\ InnerIterated
   /\ PrevLine = <<"T","e","e">>
   /\ parser_locals.prev_i + 1 < Len(TextLines)
   /\ PrevNextLine = <<"T","e","e">>
   /\ parser_locals.at = "inner"
   /\ parser_locals.i = parser_locals.prev_i + 2

\* A line that starts with the SKU marker or with "LB"
StartsWithSkuMarker(line) ==
   OccursAt(Strip(line), s_SKU, 1) \/ OccursAt(Strip(line), s_LB, 1)

\* C27: an iteration of the inner loop that appended an item leaves the
\* loop two lines after the title, past one more line exactly when that
\* line starts with the SKU marker or with "LB".  The test of line 950 is
\* whether the line holds the marker anywhere, so a line such as "No SKU"
\* is passed over too and is not read as a title.
C27_SkuLineSkippedIffPrefixed ==
   (/\ parser_locals.at = "inner"
    /\ InnerIterated
    /\ Len(parser_locals.product_details) = parser_locals.prev_n + 1)
      => parser_locals.i
            = IF /\ parser_locals.prev_i + 2 < Len(TextLines)
                 /\ StartsWithSkuMarker(TextLines[parser_locals.prev_i + 3])
              THEN parser_locals.prev_i + 3
              ELSE parser_locals.prev_i + 2

\* The last iteration of a loop either ended the call or left the line
\* index greater than it found it, and the index is within the text.
ParserProgress ==
   parser_locals.at # "idle" =>
      /\ parser_locals.prev_at \in {"outer", "inner"} =>
            \/ parser_locals.at = "returned" /\ parser_locals.i >= parser_locals.prev_i
            \/ parser_locals.i > parser_locals.prev_i
      /\ parser_locals.i <= Len(TextLines)

\* C28: every iteration of the outer and of the inner loop of the parser
\* leaves its loop or increases the line index, which never decreases, and
\* every call returns.
C28_ParserTerminates ==
   /\ []ParserProgress
   /\ (parser_locals.at = "outer") ~> (parser_locals.at = "returned")

\* The call returned after iterations of both loops, the last at the blank
\* line that follows a header line, the marker, a title and its size.
C28_Witness ==
   /\ parser_locals.at = "returned"
   /\ parser_locals.prev_at = "inner"
   /\ TextLines[1] = <<"O","r","d","e","r"," ","1">>
   /\ parser_locals.i = 4
   /\ Len(parser_locals.product_details) = 1

\* The areas the items of a page resolve to
AreasOfItems(product_details) ==
   {ItemArea(product_details[k]) : k \in 1..Len(product_details)}

\* C29: the area set recorded for a kept page is never empty and never
\* holds "Unknown Area"; a page the selection has looked at is kept exactly
\* when it parsed to at least one item; and while the selection runs and
\* when it has looked at the last page, every item parsed resolves to
\* "garage" or to an area of the warehouse map, and the area set of a kept
\* page is the set of the areas of its items, so that no page with samples
\* is kept with an empty area set.
C29_NoUnknownArea ==
   /\ \A k \in 1..Len(page_areas_list) :
         page_areas_list[k] # {} /\ s_unknown_area \notin page_areas_list[k]
   /\ \A i \in 0..(idx - 1) :
         (selected_details[i + 1] # << >>) <=> (Count(indices_to_keep, i) = 1)
   /\ pc = "select" =>
         /\ \A i \in 0..(idx - 1) :
               AreasOfItems(selected_details[i + 1])
                  \subseteq ({s_garage} \cup Range(warehouse_map)) \ {s_unknown_area}
         /\ \A k \in 1..Len(indices_to_keep) :
               page_areas_list[k] = AreasOfItems(selected_details[indices_to_keep[k] + 1])

\* A run completed that kept a page whose only item is a sample the map
\* does not have.
C29_Witness ==
   /\ pc = "done"
   /\ indices_to_keep = << 1 >>
   /\ packing_slips_deck[2] = page_sample
   /\ page_areas_list = << {s_garage} >>

\* C30: the kept indices are distinct and each is the index of a page of
\* the slip deck; no run aborts for a retained index out of range of the
\* label deck; and the written label file has, for every sorted index, the
\* label page of that index.
C30_KeptIndicesInRange ==
   /\ \A k \in 1..Len(indices_to_keep) :
         /\ indices_to_keep[k] \in 0..(total_pages - 1)
         /\ \A l \in 1..Len(indices_to_keep) :
               indices_to_keep[k] = indices_to_keep[l] => k = l
   /\ abort_reason # "invalid_label_indices"
   /\ labels_file.written =>
         /\ Len(labels_file.pages) = Len(sorted_indices)
         /\ \A k \in 1..Len(sorted_indices) :
               /\ sorted_indices[k] < Len(shipping_labels_pages)
               /\ labels_file.pages[k] = shipping_labels_pages[sorted_indices[k] + 1]

\* A run wrote the label file with the label of page 1 before that of
\* page 0.
C30_Witness ==
   /\ pc = "done"
   /\ labels_file.written
   /\ sorted_indices = << 1, 0 >>
   /\ Len(shipping_labels_pages) = 2

=============================================================================
